---- MODULE Spec2Model ----
(***************************************************************************)
(* Sharded counters of PushQ (counter.go): Count, Increment,               *)
(* IncreaseCounterShards and GetAllCounterNames over the App Engine        *)
(* datastore (config and shard entities, optimistic transactions that are  *)
(* re-run on a write conflict) and memcache (JSON total per counter name).  *)
(***************************************************************************)
EXTENDS Integers, Sequences, FiniteSets, TLC

\* ---- bounds of the model ----
MaxOps == 2            \* calls started in one behaviour of Spec
MaxSeqOps == 3         \* calls made one after the other in SeqSpec
MaxN == 22             \* largest argument n of IncreaseCounterShards
MaxRaceOps == 3        \* calls in RaceSpec: one Increment, then Counts
MaxLiveOps == 4        \* Increments of one name in LiveSpec
MaxReqs == 2           \* HTTP requests served one after the other in WebSpec
MaxStatsReqs == 3      \* getStats calls and toggleQueueLogs requests, StatsSpec

\* ---- program constants ----
defaultShards == 20
configKind == "CounterConfig"
shardKind == "CounterShard"
Expiration == 60
MaxAttempts == 3       \* datastore.RunInTransaction with nil options
EnqCt == "Enqueue"
ErrCt == "Error"
AvgTotalCt == "AvgTotal"
AvgAccumCt == "AvgAccum"
EnqueueError == "EnqueueError"
qNames == {"default", "crm", "campaigns", "integration", "reports",
           "messaging"}

Procs == {1, 2}                              \* callers: two at a time
NameSeq == <<"foo", "hits">>                 \* counter names, in key order
Names == {NameSeq[i] : i \in 1..Len(NameSeq)}
ByVals == {1, 3}                              \* increment amounts (int64)
NVals == {0, MaxN - 1, MaxN}                  \* arguments n
LowDraws == {0, 2}                            \* values of rand.Intn, with S-1
NoCursor == <<>>

\* what the HTTP requests of the model carry
Today == "2017-05-09"                         \* the date of now, as ISO8601D
WebQueue == "default"                         \* a configured queue name
WebURL == "http://h/t"                        \* task.URL
URLVals == {WebURL, "Error"}                  \* task.URL of POST /enq
QueueNameVals == {WebQueue, "InvalidName!"}   \* task.QueueName
HeaderVals == {"", WebQueue, "crm"}           \* X-AppEngine-QueueName
StatusVals == {200, 201, 500}                 \* status the URL answers with
ElapsedVals == {0, 7}                         \* ms the URL took to answer
WebDraws == {0}                               \* rand.Intn within a request

\* the counter names the handlers increment for WebQueue and WebURL on
\* Today, in key order (bytewise), before the names of NameSeq
WebNameSeq ==
    <<AvgAccumCt \o WebQueue, AvgAccumCt \o WebQueue \o Today,
      AvgAccumCt \o WebURL, AvgAccumCt \o WebURL \o Today,
      AvgTotalCt \o WebQueue, AvgTotalCt \o WebQueue \o Today,
      AvgTotalCt \o WebURL, AvgTotalCt \o WebURL \o Today,
      EnqCt, EnqCt \o Today,
      EnqueueError, EnqueueError \o Today,
      EnqCt \o WebQueue, EnqCt \o WebQueue \o Today,
      EnqCt \o WebURL, EnqCt \o WebURL \o Today,
      ErrCt, ErrCt \o Today,
      ErrCt \o WebQueue, ErrCt \o WebQueue \o Today,
      ErrCt \o WebURL, ErrCt \o WebURL \o Today>>
AllNameSeq == WebNameSeq \o NameSeq
AllNames == {AllNameSeq[i] : i \in 1..Len(AllNameSeq)}

VARIABLES
    config,     \* datastore kind CounterConfig: name -> Shards
    shards,     \* datastore kind CounterShard: key -> [Name, Count]
    cache,      \* memcache: key -> cached total
    procs,      \* per caller: position in its call and the call's locals
    last,       \* the call that returned last, until the next call starts
    ops,        \* calls started so far
    sumBy,      \* history: name -> sum of by over Increments that returned nil
    resharded,  \* history: names IncreaseCounterShards was called on
    web         \* the state of the HTTP handlers, a record of:

req == web.req        \* the HTTP request being served, or the one served last
tasks == web.tasks    \* the tasks added to the push queues
qstat == web.qstat    \* datastore kind QStat: name -> the stored QStat
logs == web.logs      \* datastore kind TaskLog, in the order saved
urls == web.urls      \* datastore kind AllURLs
reqs == web.reqs      \* HTTP requests started so far
stats == web.stats    \* the getStats call of the admin page, with its s
toggled == web.toggled \* history: name -> LogsEnabled of the last toggle

vars == <<config, shards, cache, procs, last, ops, sumBy, resharded, web>>

\* ---- pure helpers ----
Max(a, b) == IF a >= b THEN a ELSE b

memcacheKeyOfKind(name) == <<shardKind, ":", "">>

\* shardKind + ":" + name
memcacheKey(name) == <<shardKind, ":", name>>

\* fmt.Sprintf("%s-shard%d", name, i): the name, the separator, the index
shardName(name, i) == <<name, "-shard", i>>

\* decimal digits of a shard index (indices stay below 100)
Dec(i) == IF i < 10 THEN <<i>> ELSE <<i \div 10, i % 10>>

\* order of two digit strings as datastore orders key names (bytewise)
LexLess(a, b) ==
    \/ a[1] < b[1]
    \/ a[1] = b[1] /\ Len(a) < Len(b)
    \/ a[1] = b[1] /\ Len(a) = 2 /\ Len(b) = 2 /\ a[2] < b[2]

NameIdx(name) == CHOOSE i \in 1..Len(AllNameSeq) : AllNameSeq[i] = name

KeyLess(k1, k2) ==
    \/ NameIdx(k1[1]) < NameIdx(k2[1])
    \/ k1[1] = k2[1] /\ LexLess(Dec(k1[3]), Dec(k2[3]))

\* sum of the Count fields of the shard entities ks
RECURSIVE SumKeys(_, _)
SumKeys(store, ks) ==
    IF ks = {} THEN 0
    ELSE LET k == CHOOSE x \in ks : TRUE
         IN  store[k].Count + SumKeys(store, ks \ {k})

ShardKeysOfAll(store, name) == DOMAIN store

\* the entities the query Filter("Name =", name) selects
ShardKeysOf(store, name) == {k \in DOMAIN store : store[k].Name = name}

StoreTotal(name) == SumKeys(shards, ShardKeysOf(shards, name))

\* ---- a caller ----
ZeroShard == [Name |-> "", Count |-> 0]

IdleProc == [pc |-> "idle", op |-> "none", name |-> "", by |-> 0, n |-> 0,
             cfg |-> 0, s |-> ZeroShard, key |-> NoCursor,
             attempt |-> 0, conflict |-> FALSE, total |-> 0,
             cursor |-> NoCursor, cacheFault |-> FALSE,
             cfgRetried |-> FALSE, shardRetried |-> FALSE, raced |-> FALSE,
             pre |-> 0]

NoCall == [op |-> "none", name |-> "", by |-> 0, n |-> 0, ret |-> 0,
           err |-> "nil", names |-> <<>>, mod |-> FALSE, scanned |-> FALSE,
           storeFault |-> FALSE, cacheFault |-> FALSE,
           cfgRetried |-> FALSE, shardRetried |-> FALSE,
           pre |-> 0, post |-> 0]

Running(pr) == pr.pc # "idle"

\* ---- an HTTP request ----
NoTask == [QueueName |-> "", URL |-> ""]

\* AvgMS, a float32 quotient, is kept as the fraction it was computed from;
\* UpdatedOn, a time no handler reads, is left out
NoQStat == [Active |-> FALSE, LogsEnabled |-> FALSE, Total |-> 0,
            Today |-> 0, ErrToday |-> 0, AvgMS |-> [num |-> 0, den |-> 1]]

\* a getStats call: its position, its name, *s, the Counts it has yet to
\* make and c, the total of AvgTotalCt
NoStats == [pc |-> "idle", name |-> "", s |-> NoQStat, todo |-> <<>>,
            c |-> 0]

\* status 0: no status written yet (200 when the handler returns);
\* posted and code: what became of the POST to task.URL
NoRequest == [handler |-> "none", pc |-> "done", status |-> 0,
              authed |-> FALSE, task |-> NoTask, todo |-> <<>>,
              after |-> "none", posted |-> "no", code |-> 0,
              names |-> <<>>, totals |-> <<>>, storeFault |-> FALSE,
              queue |-> "", stored |-> NoQStat]

Serving == req.pc # "done"

Init ==
    /\ config = [k \in {} |-> 0]
    /\ shards = [k \in {} |-> ZeroShard]
    /\ cache = [k \in {} |-> 0]
    /\ procs = [p \in Procs |-> IdleProc]
    /\ last = NoCall
    /\ ops = 0
    /\ sumBy = [name \in Names |-> 0]
    /\ resharded = {}
    /\ web = [req |-> NoRequest, tasks |-> <<>>,
              qstat |-> [k \in {} |-> NoQStat], logs |-> <<>>,
              urls |-> {}, reqs |-> 0, stats |-> NoStats,
              toggled |-> [k \in {} |-> FALSE]]

\* ---- the datastore and memcache as the calls use them ----
PutAlone(store, key, val) == (key :> val)

\* datastore.Put / memcache Set of one entity or item
Put(store, key, val) == (key :> val) @@ store

\* history: by more on the tally of a name (0 where it has none yet)
Tally(f, name, by) ==
    (name :> (IF name \in DOMAIN f THEN f[name] ELSE 0) + by) @@ f

Delete(store, key) == [k \in DOMAIN store \ {key} |-> store[k]]

ConfigConflictsNone(ps, p, name) == ps

\* a commit on an entity makes every other open transaction that read the
\* entity fail its own commit (ErrConcurrentTransaction)
ConfigConflicts(ps, p, name) ==
    [q \in Procs |->
        IF q # p /\ ps[q].pc \in {"cfgCommit", "incCommit"} /\ ps[q].name = name
        THEN [ps[q] EXCEPT !.conflict = TRUE] ELSE ps[q]]

ShardConflicts(ps, p, key) ==
    [q \in Procs |->
        IF q # p /\ ps[q].pc = "shardCommit" /\ ps[q].key = key
        THEN [ps[q] EXCEPT !.conflict = TRUE] ELSE ps[q]]

\* history: a shard entity of a name is put while a Count of the name is
\* between its cache Get and its return
ScanRaces(ps, name) ==
    [q \in Procs |->
        IF ps[q].op = "Count" /\ ps[q].name = name
        THEN [ps[q] EXCEPT !.raced = TRUE] ELSE ps[q]]

Begin(op, name, by, n) ==
    [IdleProc EXCEPT !.op = op, !.name = name, !.by = by, !.n = n,
                     !.attempt = 1]

\* a call starts in the first free caller (callers are interchangeable).
\* A cache call that fails where no item is stored takes the same path as a
\* miss; procs[p].cacheFault and last.cacheFault record the failures that
\* happened where a working cache would have answered differently.
Started(p) ==
    /\ ~Running(procs[p])
    /\ \A q \in Procs : q < p => Running(procs[q])
    /\ ops' = ops + 1

\* the result of the call of caller record pr
Finish(pr, ret, err) ==
    [NoCall EXCEPT !.op = pr.op, !.name = pr.name, !.by = pr.by, !.n = pr.n,
                   !.ret = ret, !.err = err, !.cacheFault = pr.cacheFault,
                   !.cfgRetried = pr.cfgRetried,
                   !.shardRetried = pr.shardRetried]

FailedNil(pr, e) == Finish(pr, pr.total, "nil")

\* return ..., err
Failed(pr, e) == Finish(pr, pr.total, e)

\* caller p goes on with its call / its call returns r
Goes(p, pr) ==
    /\ procs' = [procs EXCEPT ![p] = pr]
    /\ last' = IF Running(procs[p]) THEN last ELSE NoCall

Returns(p, r) == procs' = [procs EXCEPT ![p] = IdleProc] /\ last' = r

ConflictedAgain(p, pr, again) ==
    Goes(p, [pr EXCEPT !.pc = again, !.conflict = FALSE,
                       !.cfgRetried = (@ \/ again = "cfgTx"),
                       !.shardRetried = (@ \/ again = "shardTx")])

\* a transaction whose commit found a conflict is run again, MaxAttempts
\* times in all, and then fails with ErrConcurrentTransaction
Conflicted(p, pr, again) ==
    IF pr.attempt < MaxAttempts
    THEN Goes(p, [pr EXCEPT !.pc = again, !.attempt = pr.attempt + 1,
                            !.conflict = FALSE,
                            !.cfgRetried = (@ \/ again = "cfgTx"),
                            !.shardRetried = (@ \/ again = "shardTx")])
    ELSE Returns(p, Failed(pr, "ErrConcurrentTransaction"))

\* ---- Increment: the config transaction ----
BootstrapShardsUnread(exists, stored) == IF exists THEN 0 ELSE defaultShards

\* cfg.Shards after datastore.Get and the ErrNoSuchEntity branch
BootstrapShards(exists, stored) == IF exists THEN stored ELSE defaultShards

\* one run of the first closure of Increment: with the entity present the
\* transaction writes nothing and the call goes on to the shard transaction
ConfigTxn(pr) ==
    LET exists == pr.name \in DOMAIN config
        stored == IF exists THEN config[pr.name] ELSE 0
        c == BootstrapShards(exists, stored)
    IN  IF exists
        THEN [pr EXCEPT !.cfg = c, !.conflict = FALSE,
                        !.pc = "shardTx", !.attempt = 1]
        ELSE [pr EXCEPT !.cfg = c, !.conflict = FALSE, !.pc = "cfgCommit"]

Increment(p, name, by) ==
    /\ Started(p)
    /\ Goes(p, ConfigTxn(Begin("Increment", name, by, 0)))
    /\ UNCHANGED <<config, shards, cache, sumBy, resharded>>

ConfigRetry(p) ==
    /\ procs[p].pc = "cfgTx"
    /\ Goes(p, ConfigTxn(procs[p]))
    /\ UNCHANGED <<config, shards, cache, ops, sumBy, resharded, web>>

ConfigCommitNoPut(p) ==
    LET pr == procs[p] IN
    /\ pr.pc = "cfgCommit"
    /\ config' = config
    /\ IF ~pr.conflict
       THEN /\ procs' = [procs EXCEPT ![p] = [pr EXCEPT !.pc = "shardTx",
                                                       !.attempt = 1]]
            /\ last' = last
       ELSE Conflicted(p, pr, "cfgTx")
    /\ UNCHANGED <<shards, cache, ops, sumBy, resharded, web>>

ConfigCommit(p) ==
    LET pr == procs[p] IN
    /\ pr.pc = "cfgCommit"
    /\ IF ~pr.conflict
       THEN /\ config' = Put(config, pr.name, pr.cfg)
            /\ procs' = ConfigConflicts(
                   [procs EXCEPT ![p] = [pr EXCEPT !.pc = "shardTx",
                                                   !.attempt = 1]],
                   p, pr.name)
            /\ last' = last
       ELSE /\ config' = config
            /\ Conflicted(p, pr, "cfgTx")
    /\ UNCHANGED <<shards, cache, ops, sumBy, resharded, web>>

\* ---- Increment: the shard transaction ----
DrawsInclusive(S) == {i \in 0..S : i \in LowDraws \/ i >= S - 1}

\* the values of rand.Intn(S) the model draws: LowDraws and the last index.
\* As key names "<name>-shard19" sorts before "<name>-shard2".
Draws(S) == {i \in 0..(S - 1) : i \in LowDraws \/ i = S - 1}

ShardAfterGetUnread(s, exists, stored) == s

\* s after datastore.Get(ctx, key, &s): a missing entity leaves s as it was
ShardAfterGet(s, exists, stored) == IF exists THEN stored ELSE s

\* s.Name = name; s.Count += by
ShardUpdate(s, name, by) == [Name |-> name, Count |-> s.Count + by]

\* one run of the second closure of Increment, drawing shard index i
ShardTxn(p, i) ==
    LET pr == procs[p]
        key == shardName(pr.name, i)
        exists == key \in DOMAIN shards
        got == ShardAfterGet(pr.s, exists, IF exists THEN shards[key] ELSE ZeroShard)
    IN  /\ pr.pc = "shardTx"
        /\ i \in Draws(pr.cfg)
        /\ Goes(p, [pr EXCEPT !.key = key, !.s = ShardUpdate(got, pr.name, pr.by),
                              !.conflict = FALSE, !.pc = "shardCommit"])
        /\ UNCHANGED <<config, shards, cache, ops, sumBy, resharded, web>>

ShardCommit(p) ==
    LET pr == procs[p] IN
    /\ pr.pc = "shardCommit"
    /\ IF ~pr.conflict
       THEN /\ shards' = Put(shards, pr.key, pr.s)
            /\ procs' = ScanRaces(
                   ShardConflicts(
                       [procs EXCEPT ![p] = [pr EXCEPT !.pc = "cacheAdj"]],
                       p, pr.key),
                   pr.name)
            /\ last' = last
       ELSE /\ shards' = shards
            /\ Conflicted(p, pr, "shardTx")
    /\ UNCHANGED <<config, cache, ops, sumBy, resharded, web>>

\* ---- Increment: memcache.IncrementExisting(ctx, memcacheKey(name), 1) ----
\* the new value of the item, which memcache reads as an unsigned decimal
IncrementExisting(c, delta) == IF c >= 0 THEN c + delta ELSE c

CacheAdjustCreates(p, ok) ==
    LET pr == procs[p]
        mkey == memcacheKey(pr.name)
    IN  /\ pr.pc = "cacheAdj"
        /\ cache' = IF ok
                    THEN Put(cache, mkey,
                             IF mkey \in DOMAIN cache
                             THEN IncrementExisting(cache[mkey], 1) ELSE 1)
                    ELSE cache
        /\ Returns(p, [Finish(pr, 0, "nil") EXCEPT
                           !.cacheFault = (~ok /\ mkey \in DOMAIN cache)])
        /\ sumBy' = Tally(sumBy, pr.name, pr.by)
        /\ UNCHANGED <<config, shards, ops, resharded, web>>

CacheAdjustBy(p, ok) ==
    LET pr == procs[p]
        mkey == memcacheKey(pr.name)
    IN  /\ pr.pc = "cacheAdj"
        /\ cache' = IF ok /\ mkey \in DOMAIN cache
                    THEN Put(cache, mkey, IncrementExisting(cache[mkey], pr.by))
                    ELSE cache
        /\ Returns(p, [Finish(pr, 0, "nil") EXCEPT
                           !.cacheFault = (~ok /\ mkey \in DOMAIN cache)])
        /\ sumBy' = Tally(sumBy, pr.name, pr.by)
        /\ UNCHANGED <<config, shards, ops, resharded, web>>

CacheAdjust(p, ok) ==
    LET pr == procs[p]
        mkey == memcacheKey(pr.name)
    IN  /\ pr.pc = "cacheAdj"
        /\ cache' = IF ok /\ mkey \in DOMAIN cache
                    THEN Put(cache, mkey, IncrementExisting(cache[mkey], 1))
                    ELSE cache
        /\ Returns(p, [Finish(pr, 0, "nil") EXCEPT
                           !.cacheFault = (~ok /\ mkey \in DOMAIN cache)])
        /\ sumBy' = Tally(sumBy, pr.name, pr.by)
        /\ UNCHANGED <<config, shards, ops, resharded, web>>

\* ---- IncreaseCounterShards ----
IncreaseBodySet(exists, stored, n) ==
    LET base == IF exists THEN stored ELSE defaultShards
    IN  [Shards |-> IF base # n THEN n ELSE base,
         mod |-> (~exists) \/ base # n]

IncreaseBodyNoDefault(exists, stored, n) ==
    LET base == IF exists THEN stored ELSE 0
    IN  [Shards |-> IF base < n THEN n ELSE base,
         mod |-> (~exists) \/ base < n]

IncreaseBodyFromN(exists, stored, n) ==
    LET base == IF exists THEN stored ELSE n
    IN  [Shards |-> IF base < n THEN n ELSE base,
         mod |-> (~exists) \/ base < n]

IncreaseBodyAlwaysPut(exists, stored, n) ==
    LET base == IF exists THEN stored ELSE defaultShards
    IN  [Shards |-> IF base < n THEN n ELSE base, mod |-> TRUE]

\* cfg.Shards and mod at the end of the closure
IncreaseBody(exists, stored, n) ==
    LET base == IF exists THEN stored ELSE defaultShards
    IN  [Shards |-> IF base < n THEN n ELSE base,
         mod |-> (~exists) \/ base < n]

\* one run of the closure: without mod nothing is put and the call returns
IncreaseTxn(p, pr) ==
    LET exists == pr.name \in DOMAIN config
        stored == IF exists THEN config[pr.name] ELSE 0
        b == IncreaseBody(exists, stored, pr.n)
    IN  IF b.mod
        THEN Goes(p, [pr EXCEPT !.cfg = b.Shards, !.conflict = FALSE,
                                !.pc = "incCommit"])
        ELSE Returns(p, [Finish(pr, 0, "nil") EXCEPT
                             !.pre = stored, !.post = stored])

IncreaseCounterShards(p, name, n) ==
    /\ Started(p)
    /\ IncreaseTxn(p, Begin("IncreaseCounterShards", name, 0, n))
    /\ resharded' = resharded \cup {name}
    /\ UNCHANGED <<config, shards, cache, sumBy>>

IncreaseRetry(p) ==
    /\ procs[p].pc = "incTx"
    /\ IncreaseTxn(p, procs[p])
    /\ UNCHANGED <<config, shards, cache, ops, sumBy, resharded, web>>

IncreasePutAll(store, name, c) == [k \in DOMAIN store \cup {name} |-> c]

\* the config kind after the committed datastore.Put(ctx, ckey, &cfg)
IncreasePut(store, name, c) == Put(store, name, c)

IncreaseCommit(p) ==
    LET pr == procs[p] IN
    /\ pr.pc = "incCommit"
    /\ IF ~pr.conflict
       THEN /\ config' = IncreasePut(config, pr.name, pr.cfg)
            /\ procs' = ConfigConflicts([procs EXCEPT ![p] = IdleProc],
                                        p, pr.name)
            /\ last' = [Finish(pr, 0, "nil") EXCEPT
                            !.mod = TRUE,
                            !.pre = IF pr.name \in DOMAIN config
                                    THEN config[pr.name] ELSE defaultShards,
                            !.post = config'[pr.name]]
       ELSE /\ config' = config
            /\ Conflicted(p, pr, "incTx")
    /\ UNCHANGED <<shards, cache, ops, sumBy, resharded, web>>

\* ---- Count ----
RemainingAllNames(name, cursor) ==
    {k \in DOMAIN shards : cursor = NoCursor \/ KeyLess(cursor, k)}

\* the shard entities the query iterator has still to return, in key order
Remaining(name, cursor) ==
    {k \in ShardKeysOf(shards, name) : cursor = NoCursor \/ KeyLess(cursor, k)}

\* the query returns the entities in key order
FirstKey(ks) == CHOOSE k \in ks : \A x \in ks \ {k} : KeyLess(k, x)

AccumulateLast(total, s) == s.Count

AccumulateEntities(total, s) == total + 1

AccumulateTwice(total, s) == total + 2 * s.Count

\* total += s.Count
Accumulate(total, s) == total + s.Count

CountIgnoresCache(p, name, ok) ==
    LET pr == Begin("Count", name, 0, 0)
    IN  /\ Started(p)
        /\ Goes(p, [pr EXCEPT !.pc = "scan"])
        /\ UNCHANGED <<config, shards, cache, sumBy, resharded>>

\* memcache.JSON.Get: a hit returns the cached total, a miss or a failing
\* cache starts the query
Count(p, name, ok) ==
    LET pr == Begin("Count", name, 0, 0)
        mkey == memcacheKey(name)
    IN  /\ Started(p)
        /\ IF ok /\ mkey \in DOMAIN cache
           THEN Returns(p, Finish(pr, cache[mkey], "nil"))
           ELSE Goes(p, [pr EXCEPT !.pc = "scan",
                                   !.cacheFault = (mkey \in DOMAIN cache),
                                   !.pre = StoreTotal(name)])
        /\ UNCHANGED <<config, shards, cache, sumBy, resharded>>

\* t.Next(&s): the next shard entity, or datastore.Done
CountNext(p) ==
    LET pr == procs[p]
        rest == Remaining(pr.name, pr.cursor)
    IN  /\ pr.pc = "scan"
        /\ Goes(p, IF rest = {}
                   THEN [pr EXCEPT !.pc = "cacheSet"]
                   ELSE LET k == FirstKey(rest)
                        IN  [pr EXCEPT !.cursor = k,
                                       !.total = Accumulate(pr.total, shards[k])])
        /\ UNCHANGED <<config, shards, cache, ops, sumBy, resharded, web>>

CountResultSetErr(total, setOk) ==
    [ret |-> total, err |-> IF setOk THEN "nil" ELSE "ErrServerError"]

\* what Count returns after the query, whether or not the Set succeeded
CountResult(total, setOk) == [ret |-> total, err |-> "nil"]

CountSetNoWrite(p, ok) ==
    LET pr == procs[p]
        r == CountResult(pr.total, ok)
    IN  /\ pr.pc = "cacheSet"
        /\ cache' = cache
        /\ Returns(p, [Finish(pr, r.ret, r.err) EXCEPT
                           !.scanned = TRUE,
                           !.cacheFault = pr.cacheFault \/ ~ok])
        /\ UNCHANGED <<config, shards, ops, sumBy, resharded, web>>

CountSetCreates(p, ok) ==
    LET pr == procs[p]
        r == CountResult(pr.total, ok)
    IN  /\ pr.pc = "cacheSet"
        /\ cache' = IF ok THEN Put(cache, memcacheKey(pr.name), pr.total)
                    ELSE cache
        /\ config' = IF pr.name \in DOMAIN config THEN config
                     ELSE Put(config, pr.name, defaultShards)
        /\ Returns(p, [Finish(pr, r.ret, r.err) EXCEPT
                           !.scanned = TRUE,
                           !.cacheFault = pr.cacheFault \/ ~ok])
        /\ UNCHANGED <<shards, ops, sumBy, resharded, web>>

\* memcache.JSON.Set with Expiration 60, its error ignored; return total, nil
CountSet(p, ok) ==
    LET pr == procs[p]
        r == CountResult(pr.total, ok)
    IN  /\ pr.pc = "cacheSet"
        /\ cache' = IF ok THEN Put(cache, memcacheKey(pr.name), pr.total)
                    ELSE cache
        /\ Returns(p, [Finish(pr, r.ret, r.err) EXCEPT
                           !.scanned = TRUE,
                           !.cacheFault = pr.cacheFault \/ ~ok])
        /\ UNCHANGED <<config, shards, ops, sumBy, resharded, web>>

\* ---- GetAllCounterNames ----
ConfigNamesAll(store) == NameSeq

\* key.StringID() of every config key, in key order
ConfigNames(store) == SelectSeq(AllNameSeq, LAMBDA x : x \in DOMAIN store)

GetAllCounterNames(p, ok) ==
    LET pr == Begin("GetAllCounterNames", "", 0, 0)
    IN  /\ Started(p)
        /\ Returns(p, IF ok
                      THEN [Finish(pr, 0, "nil") EXCEPT !.names = ConfigNames(config)]
                      ELSE [Failed(pr, "ErrStore") EXCEPT !.storeFault = TRUE])
        /\ UNCHANGED <<config, shards, cache, sumBy, resharded>>

\* ---- the environment ----
StoreFaultCaches(p) ==
    LET pr == procs[p] IN
    /\ pr.pc \in {"cfgTx", "cfgCommit", "shardTx", "shardCommit",
                  "incTx", "incCommit", "scan"}
    /\ Returns(p, [Failed(pr, "ErrStore") EXCEPT !.storeFault = TRUE])
    /\ cache' = IF pr.pc = "scan"
                THEN Put(cache, memcacheKey(pr.name), pr.total) ELSE cache
    /\ UNCHANGED <<config, shards, ops, sumBy, resharded, web>>

\* a datastore call of the running transaction or query returns an error
\* other than ErrNoSuchEntity / Done: the call returns it, nothing is written
StoreFault(p) ==
    LET pr == procs[p] IN
    /\ pr.pc \in {"cfgTx", "cfgCommit", "shardTx", "shardCommit",
                  "incTx", "incCommit", "scan"}
    /\ Returns(p, [Failed(pr, "ErrStore") EXCEPT !.storeFault = TRUE])
    /\ UNCHANGED <<config, shards, cache, ops, sumBy, resharded, web>>

\* the item of a counter expires (Expiration 60) or is evicted
Expire(name) ==
    /\ memcacheKey(name) \in DOMAIN cache
    /\ cache' = Delete(cache, memcacheKey(name))
    /\ UNCHANGED <<config, shards, procs, last, ops, sumBy, resharded, web>>

\* ---- the HTTP handlers ----
counters == <<config, shards, cache, procs, last, ops, sumBy, resharded>>

\* localt.Format(ISO8601D): the date of a time
getTodayf(now) == now.date

\* the two Increment calls of incrementCounters, whose errors are logged
incrementCounters(name, now, by) ==
    <<[name |-> name, by |-> by],
      [name |-> name \o getTodayf(now), by |-> by]>>

\* the QStat kind after getOrCreateQStat has answered without error
getOrCreateQStat(store, name) ==
    IF name \in DOMAIN store THEN store
    ELSE Put(store, name, [NoQStat EXCEPT !.Active = TRUE,
                                          !.LogsEnabled = FALSE])

\* the TaskLog kind after saveLog
saveLog(store, task, logType, code) ==
    Append(store, [Task |-> task, LogType |-> logType, Code |-> code])

\* http.Error(w, msg, code)
httpError(r, code) == [r EXCEPT !.status = code]

\* the handler returns: a response without a status written is a 200
Return(r) ==
    [r EXCEPT !.pc = "done", !.todo = <<>>, !.after = "none",
              !.status = IF @ = 0 THEN 200 ELSE @]

ValidQueueAny(name) == TRUE

\* qNames[task.QueueName]
ValidQueue(name) == name \in qNames

\* a request starts: the handler state with one more request
Starts == [web EXCEPT !.reqs = @ + 1]

\* POST /enq up to its first Increment.  authOk: auth found the key and the
\* secret matches; jsonOk: the body unmarshals into task; qsOk: the
\* datastore answers getOrCreateQStat; addOk: taskqueue.Add answers
enq(authOk, jsonOk, task, qsOk, addOk) ==
    LET r == [NoRequest EXCEPT !.handler = "enq", !.pc = "run",
                               !.authed = authOk]
        rt == [r EXCEPT !.task = task]
        qs == getOrCreateQStat(qstat, task.QueueName)
        enabled == qs[task.QueueName].LogsEnabled
        now == [date |-> Today]
    IN  /\ ~Serving
        /\ web' =
             IF ~authOk
             THEN [Starts EXCEPT !.req = Return(httpError(r, 401))]
             ELSE IF ~jsonOk
             THEN [Starts EXCEPT !.req = Return(httpError(r, 400))]
             ELSE IF ~ValidQueue(task.QueueName)
             THEN [Starts EXCEPT !.req = Return(httpError(rt, 406))]
             ELSE IF ~qsOk
             THEN [Starts EXCEPT !.req = Return(httpError(rt, 500))]
             ELSE IF ~addOk
             THEN [Starts EXCEPT
                      !.qstat = qs,
                      !.req = [httpError(rt, 500) EXCEPT
                                  !.todo = incrementCounters(EnqueueError,
                                                             now, 1),
                                  !.after = IF enabled THEN "saveLog"
                                            ELSE "none"]]
             ELSE [Starts EXCEPT
                      !.qstat = qs,
                      !.tasks = Append(@, [QueueName |-> task.QueueName,
                                           Path |-> "/callback",
                                           Payload |-> task]),
                      !.logs = IF enabled
                               THEN saveLog(@, task, "Enqueue", 0) ELSE @,
                      !.req = [rt EXCEPT
                                  !.todo =
                                      incrementCounters(EnqCt, now, 1)
                                      \o incrementCounters(
                                             EnqCt \o task.QueueName, now, 1)
                                      \o incrementCounters(
                                             EnqCt \o task.URL, now, 1),
                                  !.after = "recordURL"]]
        /\ UNCHANGED counters

\* the end of enq: saveLog after a failed Add, recordURL after a task added
enqReturn ==
    /\ req.handler = "enq" /\ req.pc = "run" /\ req.todo = <<>>
    /\ ~Running(procs[1])
    /\ web' = [web EXCEPT
                  !.logs = IF req.after = "saveLog"
                           THEN saveLog(@, req.task, "EnqueueError", 0)
                           ELSE @,
                  !.urls = IF req.after = "recordURL"
                           THEN @ \cup {req.task.URL} ELSE @,
                  !.req = Return(req)]
    /\ UNCHANGED counters

DeliveredAny2xx(code) == code \in 200..299

\* resp.StatusCode == http.StatusOK
Delivered(code) == code = 200

\* POST /callback up to its first Increment.  xq: the header
\* X-AppEngine-QueueName; reqOk: http.NewRequest takes task.URL; doOk:
\* client.Do got a response, with status code after ms milliseconds
callback(xq, jsonOk, task, qsOk, reqOk, doOk, code, ms) ==
    LET r == [NoRequest EXCEPT !.handler = "callback", !.pc = "run"]
        rt == [r EXCEPT !.task = task]
        qs == getOrCreateQStat(qstat, task.QueueName)
        enabled == qs[task.QueueName].LogsEnabled
        now == [date |-> Today]
    IN  /\ ~Serving
        /\ web' =
             IF xq = "" \/ ~jsonOk
             THEN [Starts EXCEPT !.req = Return(httpError(r, 400))]
             ELSE IF xq # task.QueueName
             THEN [Starts EXCEPT !.req = Return(httpError(rt, 400))]
             ELSE IF ~qsOk
             THEN [Starts EXCEPT !.req = Return(httpError(rt, 500))]
             ELSE IF ~reqOk
             THEN [Starts EXCEPT
                      !.qstat = qs,
                      !.logs = IF enabled
                               THEN saveLog(@, task, "NewRequestError", 0)
                               ELSE @,
                      !.req = Return(httpError(rt, 400))]
             ELSE IF ~doOk
             THEN [Starts EXCEPT
                      !.qstat = qs,
                      !.logs = IF enabled
                               THEN saveLog(@, task, "ClientError", 0)
                               ELSE @,
                      !.req = Return(httpError(
                                  [rt EXCEPT !.posted = "failed"], 400))]
             ELSE IF ~Delivered(code)
             THEN [Starts EXCEPT
                      !.qstat = qs,
                      !.logs = IF enabled
                               THEN saveLog(@, task, "CallbackError", code)
                               ELSE @,
                      !.req = [rt EXCEPT
                                  !.posted = "answered", !.code = code,
                                  !.todo =
                                      incrementCounters(ErrCt, now, 1)
                                      \o incrementCounters(
                                             ErrCt \o task.URL, now, 1)
                                      \o incrementCounters(
                                             ErrCt \o task.QueueName, now, 1),
                                  !.after = "httpError"]]
             ELSE [Starts EXCEPT
                      !.qstat = qs,
                      !.req = [rt EXCEPT
                                  !.posted = "answered", !.code = code,
                                  !.todo =
                                      incrementCounters(
                                          AvgTotalCt \o task.URL, now, 1)
                                      \o incrementCounters(
                                             AvgAccumCt \o task.URL, now, ms)
                                      \o incrementCounters(
                                             AvgTotalCt \o task.QueueName,
                                             now, 1)
                                      \o incrementCounters(
                                             AvgAccumCt \o task.QueueName,
                                             now, ms),
                                  !.after = IF enabled THEN "saveLog"
                                            ELSE "none"]]
        /\ UNCHANGED counters

\* the end of callback: http.Error(w, "Callback Failed", 400) after the
\* error counters, saveLog after the timing counters
callbackReturn ==
    /\ req.handler = "callback" /\ req.pc = "run" /\ req.todo = <<>>
    /\ ~Running(procs[1])
    /\ web' = [web EXCEPT
                  !.logs = IF req.after = "saveLog"
                           THEN saveLog(@, req.task, "CallbackSuccess",
                                        req.code)
                           ELSE @,
                  !.req = Return(IF req.after = "httpError"
                                 THEN httpError(req, 400) ELSE req)]
    /\ UNCHANGED counters

\* the next Increment of the handler, made when the one before has returned
nextIncrement ==
    /\ req.pc = "run" /\ req.todo # <<>>
    /\ Increment(1, Head(req.todo).name, Head(req.todo).by)
    /\ web' = [web EXCEPT !.req.todo = Tail(@)]

CounterTotalZero(name, c) == [Name |-> name, Total |-> 0]

\* CounterTotal{Name: counterName} with total.Total = c
CounterTotal(name, c) == [Name |-> name, Total |-> c]

\* GET /counts up to the loop over the names
getAllCounts(authOk, ok) ==
    LET r == [NoRequest EXCEPT !.handler = "getAllCounts", !.pc = "counts",
                               !.authed = authOk]
    IN  /\ ~Serving
        /\ IF ~authOk
           THEN /\ web' = [Starts EXCEPT !.req = Return(httpError(r, 401))]
                /\ UNCHANGED counters
           ELSE /\ GetAllCounterNames(1, ok)
                /\ web' = [Starts EXCEPT
                              !.req =
                                  IF ok
                                  THEN [r EXCEPT
                                           !.names = ConfigNames(config)]
                                  ELSE Return(httpError(
                                           [r EXCEPT !.storeFault = TRUE],
                                           500))]

\* Count(ctx, counterName) of the next name
getAllCountsCount ==
    /\ req.pc = "counts" /\ req.names # <<>>
    /\ Count(1, Head(req.names), TRUE)
    /\ web' = [web EXCEPT !.req.pc = "counted"]

\* the Count has returned: its error answers 500, its total is appended
getAllCountsTotal ==
    /\ req.pc = "counted" /\ ~Running(procs[1])
    /\ web' = [web EXCEPT
                  !.req =
                      IF last.err # "nil"
                      THEN Return(httpError([req EXCEPT !.storeFault = TRUE],
                                            500))
                      ELSE [req EXCEPT
                               !.pc = "counts",
                               !.totals = Append(@, CounterTotal(
                                                        Head(req.names),
                                                        last.ret)),
                               !.names = Tail(@)]]
    /\ UNCHANGED counters

\* enc.Encode(totals) after the last name
getAllCountsEncode ==
    /\ req.pc = "counts" /\ req.names = <<>>
    /\ web' = [web EXCEPT !.req = Return(req)]
    /\ UNCHANGED counters

\* POST /admin/toggleQueueLogs by a logged-in admin, up to its Put: the
\* stored QStat of the queue is read and gets LogsEnabled; with no stored
\* QStat the request fails and nothing is put
toggleQueueLogs(name, enabled) ==
    LET r == [NoRequest EXCEPT !.handler = "toggleQueueLogs",
                               !.queue = name]
    IN  /\ ~Serving
        /\ web' = [Starts EXCEPT
                      !.req = IF name \in DOMAIN qstat
                              THEN [r EXCEPT
                                       !.pc = "put",
                                       !.stored =
                                           [qstat[name] EXCEPT
                                               !.LogsEnabled = enabled]]
                              ELSE Return(r)]
        /\ UNCHANGED counters

\* datastore.Put(ctx, key, &stored) and okJSON(w, "Ok")
toggleQueueLogsPut ==
    /\ req.handler = "toggleQueueLogs" /\ req.pc = "put"
    /\ web' = [web EXCEPT
                  !.qstat = Put(@, req.queue, req.stored),
                  !.toggled = Put(@, req.queue, req.stored.LogsEnabled),
                  !.req = Return(req)]
    /\ UNCHANGED counters

\* getStats(ctx, &s, name, nowf) up to its first Count: getOrCreateQStat
\* fills *s with the stored copy (ok: the datastore answered)
getStats(name, nowf, ok) ==
    LET qs == getOrCreateQStat(qstat, name)
    IN  /\ stats.pc = "idle" /\ ~Running(procs[1])
        /\ web' = IF ~ok THEN Starts
                  ELSE [Starts EXCEPT
                           !.qstat = qs,
                           !.stats =
                               [NoStats EXCEPT
                                   !.pc = "counts", !.name = name,
                                   !.s = qs[name],
                                   !.todo =
                                     <<[field |-> "Total",
                                        name |-> EnqCt \o name],
                                       [field |-> "Today",
                                        name |-> EnqCt \o name \o nowf],
                                       [field |-> "ErrToday",
                                        name |-> ErrCt \o name \o nowf],
                                       [field |-> "AvgTotal",
                                        name |-> AvgTotalCt \o name \o nowf],
                                       [field |-> "AvgAccum",
                                        name |-> AvgAccumCt \o name
                                                     \o nowf]>>]]
        /\ UNCHANGED counters

\* the next Count of getStats
getStatsCount ==
    /\ stats.pc = "counts" /\ stats.todo # <<>>
    /\ Count(1, Head(stats.todo).name, TRUE)
    /\ web' = [web EXCEPT !.stats.pc = "counted"]

\* the Count has returned: without an error its total goes into *s; the
\* Count of AvgAccumCt is made only after AvgTotalCt was counted
getStatsTotal ==
    LET field == Head(stats.todo).field
        okc == last.err = "nil"
        c == last.ret
    IN  /\ stats.pc = "counted" /\ ~Running(procs[1])
        /\ web' = [web EXCEPT
                      !.stats.pc = "counts",
                      !.stats.todo = IF field = "AvgTotal" /\ ~okc
                                     THEN <<>> ELSE Tail(@),
                      !.stats.c = IF field = "AvgTotal" /\ okc THEN c ELSE @,
                      !.stats.s =
                          IF ~okc THEN @
                          ELSE IF field = "Total" THEN [@ EXCEPT !.Total = c]
                          ELSE IF field = "Today" THEN [@ EXCEPT !.Today = c]
                          ELSE IF field = "ErrToday"
                          THEN [@ EXCEPT !.ErrToday = c]
                          ELSE IF field = "AvgAccum" /\ stats.c > 0
                          THEN [@ EXCEPT !.AvgMS = [num |-> c,
                                                    den |-> stats.c]]
                          ELSE @]
        /\ UNCHANGED counters

\* datastore.Put(ctx, key, s): the stats are re-saved (ok: the Put answered)
getStatsPut(ok) ==
    /\ stats.pc = "counts" /\ stats.todo = <<>>
    /\ web' = [web EXCEPT
                  !.qstat = IF ok THEN Put(@, stats.name, stats.s) ELSE @,
                  !.stats = NoStats]
    /\ UNCHANGED counters

\* a request that starts
Request ==
    \/ \E authOk, jsonOk, qsOk, addOk \in BOOLEAN, q \in QueueNameVals,
          u \in URLVals :
           enq(authOk, jsonOk, [QueueName |-> q, URL |-> u], qsOk, addOk)
    \/ \E xq \in HeaderVals, jsonOk, qsOk, reqOk, doOk \in BOOLEAN,
          code \in StatusVals, ms \in ElapsedVals :
           callback(xq, jsonOk, [QueueName |-> WebQueue, URL |-> WebURL],
                    qsOk, reqOk, doOk, code, ms)
    \/ \E authOk, ok \in BOOLEAN : getAllCounts(authOk, ok)
    \/ \E enabled \in BOOLEAN : toggleQueueLogs(WebQueue, enabled)

\* requests served one after the other, MaxReqs in all, on a datastore and
\* a memcache that answer the Increments; the query of a Count may fail
WebNext ==
    \/ reqs < MaxReqs /\ Request
    \/ nextIncrement
    \/ enqReturn
    \/ callbackReturn
    \/ toggleQueueLogsPut
    \/ getAllCountsCount
    \/ getAllCountsTotal
    \/ getAllCountsEncode
    \/ ConfigCommit(1)
    \/ \E i \in WebDraws : ShardTxn(1, i)
    \/ ShardCommit(1)
    \/ CacheAdjust(1, TRUE)
    \/ CountNext(1)
    \/ CountSet(1, TRUE)
    \/ procs[1].op = "Count" /\ StoreFault(1)

WebSpec == Init /\ [][WebNext]_vars

\* the admin page calling getStats for WebQueue while toggleQueueLogs
\* requests on WebQueue arrive, MaxStatsReqs calls and requests in all
StatsNext ==
    \/ /\ reqs < MaxStatsReqs
       /\ \/ \E ok \in BOOLEAN : getStats(WebQueue, Today, ok)
          \/ \E enabled \in BOOLEAN : toggleQueueLogs(WebQueue, enabled)
    \/ toggleQueueLogsPut
    \/ getStatsCount
    \/ getStatsTotal
    \/ \E ok \in BOOLEAN : getStatsPut(ok)
    \/ CountNext(1)
    \/ CountSet(1, TRUE)
    \/ StoreFault(1)

StatsSpec == Init /\ [][StatsNext]_vars

\* the names a call may be made on: the calls treat all names alike, so
\* the first call of a behaviour is taken to be on the first name
CallNames == IF ops = 0 THEN {NameSeq[1]} ELSE Names

\* a call that starts, by caller p
Call(p) ==
    /\ \/ \E name \in CallNames, by \in ByVals : Increment(p, name, by)
       \/ \E name \in CallNames, n \in NVals :
              IncreaseCounterShards(p, name, n)
       \/ \E name \in CallNames, ok \in BOOLEAN : Count(p, name, ok)
       \/ \E ok \in BOOLEAN : GetAllCounterNames(p, ok)
    /\ UNCHANGED web

\* callers running at the same time, MaxOps calls in all
Next ==
    \/ ops < MaxOps /\ \E p \in Procs : Call(p)
    \/ \E p \in Procs : ConfigRetry(p)
    \/ \E p \in Procs : ConfigCommit(p)
    \/ \E p \in Procs : \E i \in Draws(procs[p].cfg) : ShardTxn(p, i)
    \/ \E p \in Procs : ShardCommit(p)
    \/ \E p \in Procs, ok \in BOOLEAN : CacheAdjust(p, ok)
    \/ \E p \in Procs : IncreaseRetry(p)
    \/ \E p \in Procs : IncreaseCommit(p)
    \/ \E p \in Procs : CountNext(p)
    \/ \E p \in Procs, ok \in BOOLEAN : CountSet(p, ok)
    \/ \E p \in Procs : StoreFault(p)
    \/ \E name \in Names : Expire(name)

Spec == Init /\ [][Next]_vars

\* one caller making MaxSeqOps calls, each after the one before has returned
SeqNext ==
    \/ ops < MaxSeqOps /\ Call(1)
    \/ ConfigCommit(1)
    \/ \E i \in 0..MaxN : ShardTxn(1, i)
    \/ ShardCommit(1)
    \/ \E ok \in BOOLEAN : CacheAdjust(1, ok)
    \/ IncreaseCommit(1)
    \/ CountNext(1)
    \/ \E ok \in BOOLEAN : CountSet(1, ok)
    \/ StoreFault(1)
    \/ \E name \in Names : Expire(name)

SeqSpec == Init /\ [][SeqNext]_vars

\* one Increment(name, 1) on the initial store (every total 0, no cache
\* item) and Counts that start while it runs or after it has returned
RaceNext ==
    \/ /\ ops = 0 /\ \E name \in CallNames : Increment(1, name, 1)
       /\ UNCHANGED web
    \/ /\ ops \in 1..(MaxRaceOps - 1)
       /\ \E p \in Procs, name \in Names, ok \in BOOLEAN : Count(p, name, ok)
       /\ UNCHANGED web
    \/ \E p \in Procs : ConfigCommit(p)
    \/ \E p \in Procs : \E i \in Draws(procs[p].cfg) : ShardTxn(p, i)
    \/ \E p \in Procs : ShardCommit(p)
    \/ \E p \in Procs, ok \in BOOLEAN : CacheAdjust(p, ok)
    \/ \E p \in Procs : CountNext(p)
    \/ \E p \in Procs, ok \in BOOLEAN : CountSet(p, ok)
    \/ \E p \in Procs : StoreFault(p)
    \/ \E name \in Names : Expire(name)

RaceSpec == Init /\ [][RaceNext]_vars

\* the steps a running call takes by itself: its datastore and memcache
\* calls answer and the request goes on
ProcStep(p) ==
    \/ ConfigRetry(p)
    \/ ConfigCommit(p)
    \/ \E i \in 0..MaxN : ShardTxn(p, i)
    \/ ShardCommit(p)
    \/ \E ok \in BOOLEAN : CacheAdjust(p, ok)

\* an Increment and the caller racing it: Increments by 1 of one name
\* contending for its config entity and its shard entities, MaxLiveOps of
\* them in all
Contenders == {1, 2}

LiveNext ==
    \/ /\ ops < MaxLiveOps
       /\ \E p \in Contenders : Increment(p, NameSeq[1], 1)
       /\ UNCHANGED web
    \/ \E p \in Contenders : ProcStep(p)
    \/ \E p \in Contenders : StoreFault(p)

\* every request that is running keeps running: App Engine serves each
\* request on its own goroutine and every datastore or memcache call
\* answers (with a result or an error)
LiveSpec ==
    Init /\ [][LiveNext]_vars /\ \A p \in Contenders : WF_vars(ProcStep(p))

TypeOK ==
    /\ DOMAIN config \subseteq AllNames
    /\ \A k \in DOMAIN shards : shards[k].Name \in AllNames
    /\ ops \in Nat
    /\ reqs \in Nat
    /\ req.status \in {0, 200, 400, 401, 406, 500}

\* ---- what the claims speak of ----
IncrementRunning(name) ==
    \E p \in Procs : procs[p].op = "Increment" /\ procs[p].name = name

PastBootstrap(pr) ==
    pr.op = "Increment" /\ pr.pc \in {"shardTx", "shardCommit", "cacheAdj"}

IncreaseStep(p, name) ==
    \/ \E n \in NVals : IncreaseCounterShards(p, name, n)
    \/ procs[p].name = name /\ (IncreaseRetry(p) \/ IncreaseCommit(p))

\* the step in which the Increment of caller p returns an error of one of
\* its two transactions
IncrementFails(p) ==
    /\ procs[p].op = "Increment"
    /\ \/ StoreFault(p)
       \/ (ConfigCommit(p) \/ ShardCommit(p)) /\ ~Running(procs'[p])

\* the elements of a returned []string
Elements(seq) == {seq[i] : i \in 1..Len(seq)}

\* what the state shows of an Increment of the name: one running, a shard
\* entity, a returned Increment, or a config entity that
\* IncreaseCounterShards cannot have made
Incremented(name) ==
    \/ sumBy[name] > 0
    \/ ShardKeysOf(shards, name) # {}
    \/ IncrementRunning(name)
    \/ name \in DOMAIN config /\ name \notin resharded

OtherConfigsKept(name) ==
    \A b \in Names \ {name} :
        /\ (b \in DOMAIN config) = (b \in DOMAIN config')
        /\ b \in DOMAIN config => config'[b] = config[b]

\* C1: with calls made one after the other (SeqSpec: no call overlaps
\* another, no transaction is re-run), a Count that queried the shards (no
\* live cache item, or the cache failed) returns the sum of by over the
\* Increments that returned nil
SequentialCountIsSum ==
    [][\A p \in Procs, ok \in BOOLEAN :
          CountSet(p, ok)
              => /\ last'.ret = sumBy[procs[p].name]
                 /\ last'.err = "nil"]_vars

SequentialCountWitness ==
    /\ last.op = "Count" /\ last.scanned
    /\ Cardinality(ShardKeysOf(shards, last.name)) = 2
    /\ sumBy[last.name] = 4 /\ last.ret = 4

\* C2: with Increments running concurrently (re-run transactions included),
\* whenever no Increment on a name is running the counts of its shard
\* entities add up to the sum of by over the Increments that returned nil
ConcurrentIncrementsSum ==
    \A name \in Names :
        ~IncrementRunning(name) => StoreTotal(name) = sumBy[name]

\* C3: no step lowers or removes the Shards of a config entity
ShardsNeverDecrease ==
    [][\A name \in DOMAIN config :
          name \in DOMAIN config' /\ config'[name] >= config[name]]_vars

ShardsNeverDecreaseWitness ==
    /\ last.op = "IncreaseCounterShards" /\ last.err = "nil"
    /\ last.n = MaxN - 1 /\ last.pre = MaxN
    /\ config[last.name] = MaxN

\* C4: with first Increments racing on a name and no IncreaseCounterShards
\* on it, the config entity holds defaultShards, every Increment past its
\* config transaction goes on with defaultShards, and the config
\* transaction of Increment commits a Put only where no entity was
BootstrapOnce ==
    /\ [](\A name \in DOMAIN config \ resharded :
             /\ config[name] = defaultShards
             /\ \A p \in Procs :
                    PastBootstrap(procs[p]) /\ procs[p].name = name
                        => procs[p].cfg = defaultShards)
    /\ [][\A p \in Procs :
             (ConfigCommit(p) /\ ~procs[p].conflict)
                 => /\ procs[p].name \notin DOMAIN config
                    /\ config'[procs[p].name] = defaultShards]_vars

BootstrapOnceWitness ==
    \E p \in Procs :
        /\ PastBootstrap(procs[p]) /\ procs[p].cfgRetried
        /\ procs[p].name \notin resharded
        /\ procs[p].cfg = defaultShards
        /\ config[procs[p].name] = defaultShards

\* C5: when IncreaseCounterShards(name, n) has returned nil, the Shards its
\* transaction left is the larger of n and the Shards stored right before
\* the commit (defaultShards with no entity), and the entity exists with at
\* least that many shards
IncreaseReachesMax ==
    (last.op = "IncreaseCounterShards" /\ last.err = "nil")
        => /\ last.post = Max(last.pre, last.n)
           /\ last.name \in DOMAIN config
           /\ config[last.name] >= last.post
           /\ config[last.name] >= last.n

IncreaseReachesMaxWitness ==
    /\ last.op = "IncreaseCounterShards" /\ last.err = "nil" /\ last.mod
    /\ last.pre = MaxN - 1 /\ last.n = MaxN /\ config[last.name] = MaxN

\* C6: IncreaseCounterShards with n at most the stored Shards puts nothing
\* and leaves the config entity as it is; so does the second of two calls
\* in a row with the same name and n.  (A call starts in exactly the steps
\* that change ops.)
IncreaseIdempotent ==
    [][ops' # ops =>
       \A p \in Procs, name \in Names, n \in NVals :
          /\ (IncreaseCounterShards(p, name, n)
                /\ name \in DOMAIN config /\ n <= config[name])
                => /\ config' = config /\ shards' = shards
                   /\ last'.op = "IncreaseCounterShards"
                   /\ last'.err = "nil" /\ ~last'.mod
          /\ (IncreaseCounterShards(p, name, n)
                /\ last.op = "IncreaseCounterShards" /\ last.name = name
                /\ last.n = n /\ last.err = "nil")
                => /\ config' = config /\ shards' = shards
                   /\ last'.err = "nil" /\ ~last'.mod]_vars

IncreaseIdempotentWitness ==
    /\ last.op = "IncreaseCounterShards" /\ last.err = "nil" /\ ~last.mod
    /\ last.n = MaxN /\ config[last.name] = MaxN

\* C7: every shard entity, and every shard Put waiting for its commit, has
\* an index i with 0 <= i < Shards of the name's config entity
ShardIndexInRange ==
    /\ \A k \in DOMAIN shards :
           /\ k[1] \in DOMAIN config
           /\ 0 <= k[3] /\ k[3] < config[k[1]]
    /\ \A p \in Procs :
           procs[p].pc = "shardCommit"
               => /\ procs[p].name \in DOMAIN config
                  /\ 0 <= procs[p].key[3]
                  /\ procs[p].key[3] < config[procs[p].name]

ShardIndexInRangeWitness ==
    \E p \in Procs :
        /\ procs[p].pc = "shardCommit"
        /\ procs[p].cfg = defaultShards
        /\ procs[p].key[3] = defaultShards - 1
        /\ config[procs[p].name] = MaxN

\* C8: a step of IncreaseCounterShards(name, n) leaves every shard entity,
\* every cache item and the config entity of every other name as they are
IncreaseFrame ==
    [][\A p \in Procs, name \in Names :
          IncreaseStep(p, name)
              => /\ shards' = shards
                 /\ cache' = cache
                 /\ OtherConfigsKept(name)]_vars

IncreaseFrameWitness ==
    /\ last.op = "IncreaseCounterShards" /\ last.err = "nil" /\ last.mod
    /\ DOMAIN shards # {} /\ DOMAIN cache # {}
    /\ \E b \in DOMAIN config : b # last.name

\* C9: Count of a name without config entity (never incremented), with the
\* datastore answering, returns 0 and nil
CountOfUnknownIsZero ==
    (last.op = "Count" /\ last.name \notin DOMAIN config /\ ~last.storeFault)
        => last.ret = 0 /\ last.err = "nil"

CountOfUnknownIsZeroWitness ==
    /\ last.op = "Count" /\ last.scanned /\ last.name \notin DOMAIN config
    /\ last.ret = 0 /\ last.err = "nil"
    /\ DOMAIN shards # {}

\* C10: a failing cache never fails Count: a failed or missed Get starts the
\* query, a failed Set still returns the total with nil, and a Count whose
\* datastore calls all answered returns nil
CountSurvivesCache ==
    [][/\ ops' # ops =>
           \A p \in Procs, name \in Names :
               (Count(p, name, FALSE) \/
                (Count(p, name, TRUE) /\ memcacheKey(name) \notin DOMAIN cache))
                   => procs'[p].pc = "scan"
       /\ \A p \in Procs :
              (procs[p].pc = "cacheSet" /\ CountSet(p, FALSE))
                 => /\ last'.ret = procs[p].total
                    /\ last'.err = "nil"
                    /\ cache' = cache
       /\ (last'.op = "Count" /\ ~last'.storeFault) => last'.err = "nil"]_vars

CountSurvivesCacheWitness ==
    /\ last.op = "Count" /\ last.scanned /\ last.cacheFault
    /\ last.err = "nil" /\ last.ret > 0
    /\ memcacheKey(last.name) \notin DOMAIN cache

\* C11: a Count that found no live cache item (it expired; or the Get
\* failed) and during which no Increment put a shard entity of the name, so
\* in particular one with no Increment on the name in flight, returns the
\* sum of the counts of the name's shard entities at its return, and nil
ExpiredCountIsStoreTotal ==
    [][\A p \in Procs :
          (procs[p].pc = "cacheSet" /\ ~procs[p].raced
             /\ \E ok \in BOOLEAN : CountSet(p, ok))
              => /\ last'.ret = StoreTotal(procs[p].name)
                 /\ last'.err = "nil"]_vars

ExpiredCountIsStoreTotalWitness ==
    /\ last.op = "Count" /\ last.scanned /\ ~last.cacheFault
    /\ last.err = "nil" /\ last.ret = 3
    /\ StoreTotal(last.name) = 3
    /\ \A p \in Procs : ~Running(procs[p])

\* C12: with one Increment(name, 1) on a store total of 0 and Counts of the
\* name racing it or following it, every Count that returns nil returns 0
\* or 1
CountSeesOldOrNew ==
    (last.op = "Count" /\ last.err = "nil") => last.ret \in {0, 1}

\* C13: with calls made one after the other (SeqSpec: nothing races the
\* query), a Count that missed the cache returns nil and the sum of the
\* Count fields of exactly the shard entities whose Name is its name
MissCountsOwnShards ==
    (last.op = "Count" /\ last.scanned)
        => /\ last.err = "nil"
           /\ last.ret = SumKeys(shards, {k \in DOMAIN shards :
                                             shards[k].Name = last.name})

MissCountsOwnShardsWitness ==
    /\ last.op = "Count" /\ last.scanned /\ last.ret = 1
    /\ \E k \in DOMAIN shards : shards[k].Name = last.name
    /\ \E k \in DOMAIN shards : shards[k].Name # last.name /\ shards[k].Count = 3
    /\ config[last.name] > Cardinality(ShardKeysOf(shards, last.name))

\* C14: an Increment whose config or shard transaction fails returns that
\* error and has changed no shard entity and no cache item: the failing
\* step writes neither, the only step of an Increment that puts a shard is
\* the shard commit that leads to the cache adjustment, the only one that
\* writes the cache is the cache adjustment, and from there it returns nil
IncrementFailureWritesNothing ==
    [][\A p \in Procs :
          (procs[p].op = "Increment" /\ procs'[p] # procs[p]) =>
             /\ IncrementFails(p)
                   => /\ last'.op = "Increment"
                      /\ last'.err \in {"ErrStore", "ErrConcurrentTransaction"}
                      /\ StoreFault(p) => last'.err = "ErrStore"
                      /\ shards' = shards /\ cache' = cache
                      /\ sumBy' = sumBy
                      /\ procs[p].pc # "cacheAdj"
             /\ (ShardCommit(p) /\ shards' # shards)
                   => procs'[p].pc = "cacheAdj"
             /\ (procs'[p] # procs[p] /\ cache' # cache)
                   => procs[p].pc = "cacheAdj"
             /\ (procs[p].pc = "cacheAdj" /\ ~Running(procs'[p]))
                   => last'.err = "nil"]_vars

IncrementFailureWitness ==
    /\ last.op = "Increment" /\ last.err = "ErrStore"
    /\ last.name \in DOMAIN config
    /\ StoreTotal(last.name) = 3
    /\ sumBy[last.name] = 3

\* C15: a Count whose query fails returns the error with the total summed
\* so far and leaves the cache as it is; a Count writes the cache only in
\* its Set after the query has ended with Done
ScanFailureKeepsCache ==
    [][\A p \in Procs :
          (procs[p].op = "Count" /\ procs'[p] # procs[p]) =>
             /\ StoreFault(p)
                   => /\ last'.op = "Count" /\ last'.err = "ErrStore"
                      /\ last'.ret = procs[p].total
                      /\ cache' = cache
             /\ (procs'[p] # procs[p] /\ cache' # cache)
                   => /\ procs[p].pc = "cacheSet"
                      /\ Remaining(procs[p].name, procs[p].cursor) = {}
                         \/ procs[p].raced]_vars

ScanFailureKeepsCacheWitness ==
    /\ last.op = "Count" /\ last.err = "ErrStore" /\ last.ret = 3
    /\ StoreTotal(last.name) = 3
    /\ memcacheKey(last.name) \notin DOMAIN cache

\* C16: the cache adjustment of an Increment that finds no item of the name
\* leaves the cache as it is, and an item of a name appears only in the
\* successful Set of a Count of that name
IncrementCreatesNoItem ==
    [][cache' # cache =>
       /\ \A p \in Procs, ok \in BOOLEAN :
              (procs[p].pc = "cacheAdj" /\ CacheAdjust(p, ok))
                  => memcacheKey(procs[p].name) \in DOMAIN cache
       /\ \A name \in Names :
              (memcacheKey(name) \notin DOMAIN cache
                 /\ memcacheKey(name) \in DOMAIN cache')
                  => \E p \in Procs :
                         /\ procs[p].op = "Count" /\ procs[p].name = name
                         /\ CountSet(p, TRUE)]_vars

IncrementCreatesNoItemWitness ==
    /\ last.op = "Increment" /\ last.err = "nil" /\ ~last.cacheFault
    /\ memcacheKey(last.name) \notin DOMAIN cache
    /\ DOMAIN cache # {}
    /\ StoreTotal(last.name) > 0

\* C17: the cache adjustment, whether it raises the item, fails or finds no
\* item, returns nil and leaves the datastore as it is, with the shard
\* entity the call put still stored; and the commit of a shard transaction
\* stores the count it found on the shard (0 with no entity) plus by
CacheOutcomeIsIgnored ==
    [][\A p \in Procs :
          procs'[p] # procs[p] =>
          /\ procs[p].pc = "cacheAdj" =>
                \A ok \in BOOLEAN :
                    CacheAdjust(p, ok)
                        => /\ last'.op = "Increment" /\ last'.err = "nil"
                           /\ shards' = shards /\ config' = config
                           /\ procs[p].key \in DOMAIN shards
                           /\ sumBy'[procs[p].name]
                                  = sumBy[procs[p].name] + procs[p].by
          /\ (procs[p].pc = "shardCommit" /\ ~procs[p].conflict
                /\ ShardCommit(p))
                => LET key == procs[p].key
                       prior == IF key \in DOMAIN shards
                                THEN shards[key].Count ELSE 0
                   IN  /\ procs'[p].pc = "cacheAdj"
                       /\ shards'[key] = [Name |-> procs[p].name,
                                          Count |-> prior + procs[p].by]]_vars

\* C18: a GetAllCounterNames whose query answers returns nil and the names
\* of the config entities, all of them, nothing else and each once, and
\* leaves config entities, shard entities and cache items as they are
CounterNamesAreConfigs ==
    [][ops' # ops =>
       \A p \in Procs :
          GetAllCounterNames(p, TRUE)
              => /\ last'.op = "GetAllCounterNames" /\ last'.err = "nil"
                 /\ Elements(last'.names) = DOMAIN config
                 /\ Len(last'.names) = Cardinality(DOMAIN config)
                 /\ config' = config /\ shards' = shards
                 /\ cache' = cache]_vars

CounterNamesAreConfigsWitness ==
    /\ last.op = "GetAllCounterNames" /\ last.err = "nil"
    /\ last.names = <<"hits">>
    /\ DOMAIN config = {"hits"}
    /\ DOMAIN shards # {} /\ DOMAIN cache # {}

\* C19 as stated: a GetAllCounterNames that returned nil returned only
\* names that were incremented, and every name an Increment returned nil on
ListedNamesWereIncremented ==
    (last.op = "GetAllCounterNames" /\ last.err = "nil")
        => /\ \A name \in Elements(last.names) : Incremented(name)
           /\ \A name \in Names :
                  sumBy[name] > 0 => name \in Elements(last.names)

\* C19, amended: every name an Increment returned nil on has a config
\* entity and is among the names a GetAllCounterNames returned; every name
\* returned has a config entity; and a config entity of a name is made only
\* by the committed config transaction of an Increment of the name or by
\* the committed transaction of an IncreaseCounterShards of the name
ListedNamesHaveConfigs ==
    /\ [](/\ \A name \in Names : sumBy[name] > 0 => name \in DOMAIN config
          /\ (last.op = "GetAllCounterNames" /\ last.err = "nil")
                => /\ \A name \in Names :
                          sumBy[name] > 0 => name \in Elements(last.names)
                   /\ Elements(last.names) \subseteq DOMAIN config)
    /\ [][\A name \in Names :
             (name \notin DOMAIN config /\ name \in DOMAIN config')
                 => \E p \in Procs :
                        /\ procs[p].name = name
                        /\ \/ procs[p].op = "Increment" /\ ConfigCommit(p)
                           \/ /\ procs[p].op = "IncreaseCounterShards"
                              /\ IncreaseCommit(p)]_vars

ListedNamesHaveConfigsWitness ==
    /\ last.op = "GetAllCounterNames" /\ last.err = "nil"
    /\ \E name \in Elements(last.names) : sumBy[name] > 0
    /\ \E name \in Elements(last.names) :
           /\ name \in resharded /\ sumBy[name] = 0
           /\ ShardKeysOf(shards, name) = {}

\* C20: no step of any call removes a config entity or a shard entity
RecordsNeverDeleted ==
    [][/\ DOMAIN config \subseteq DOMAIN config'
       /\ DOMAIN shards \subseteq DOMAIN shards']_vars

RecordsNeverDeletedWitness ==
    /\ Cardinality(DOMAIN config) = 2
    /\ Cardinality(DOMAIN shards) = 2
    /\ \A k \in DOMAIN shards : shards[k].Count = 3
    /\ \A p \in Procs : ~Running(procs[p])

RerunAppliesByOnce ==
    [][\A p \in Procs :
          (procs[p].pc = "shardCommit" /\ procs[p].shardRetried
             /\ ~procs[p].conflict /\ ShardCommit(p))
              => LET key == procs[p].key
                     prior == IF key \in DOMAIN shards
                              THEN shards[key].Count ELSE 0
                 IN  shards'[key].Count = prior + procs[p].by]_vars

\* C26: a Count that finds a live item of its name returns the item's value
\* and nil in that one step, with config entities, shard entities and cache
\* items as they were and no query started
CacheHitReadsNothing ==
    [][ops' # ops =>
       \A p \in Procs, name \in Names :
          (Count(p, name, TRUE) /\ memcacheKey(name) \in DOMAIN cache)
              => /\ last'.op = "Count" /\ last'.name = name
                 /\ last'.ret = cache[memcacheKey(name)]
                 /\ last'.err = "nil" /\ ~last'.scanned
                 /\ ~Running(procs'[p])
                 /\ config' = config /\ shards' = shards
                 /\ cache' = cache]_vars

CacheHitReadsNothingWitness ==
    /\ last.op = "Count" /\ last.err = "nil" /\ ~last.scanned
    /\ memcacheKey(last.name) \in DOMAIN cache
    /\ last.ret = cache[memcacheKey(last.name)]
    /\ last.ret = 3 /\ StoreTotal(last.name) = 3

\* C27: a Count that missed the cache and whose Set succeeds stores the
\* total it summed under memcacheKey(name) and returns that total with nil;
\* a Count of the name that starts right after it, with the item still
\* there, returns the same value without a query
MissThenHit ==
    /\ [][\A p \in Procs :
             (procs[p].pc = "cacheSet" /\ CountSet(p, TRUE))
                 => /\ memcacheKey(procs[p].name) \in DOMAIN cache'
                    /\ cache'[memcacheKey(procs[p].name)] = procs[p].total
                    /\ last'.ret = procs[p].total /\ last'.err = "nil"]_vars
    /\ [][ops' # ops =>
          \A p \in Procs :
             (last.op = "Count" /\ last.scanned /\ ~last.cacheFault
                /\ last.err = "nil"
                /\ memcacheKey(last.name) \in DOMAIN cache
                /\ Count(p, last.name, TRUE))
                 => /\ last'.op = "Count" /\ ~last'.scanned
                    /\ last'.ret = last.ret /\ last'.err = "nil"]_vars

\* history: the last two calls were Counts of one name, the first a miss
\* that set the item and the second a hit
MissThenHitWitness ==
    /\ last.op = "Count" /\ ~last.scanned /\ last.err = "nil"
    /\ last.ret = 3 /\ StoreTotal(last.name) = 3
    /\ cache[memcacheKey(last.name)] = 3
    /\ ops = 3

\* C28: with calls made one after the other (SeqSpec), the cache adjustment
\* of an Increment(name, by) that finds a live item holding c leaves it
\* holding c + 1, for by = 1 and for by = 3; the committed shard put of the
\* call raises the sum of the name's shard counts by by; and no other step
\* of the call changes a cache item or a shard entity
CacheBumpIsOne ==
    [][\A p \in Procs :
          (procs[p].op = "Increment" /\ procs'[p] # procs[p]) =>
          /\ (procs[p].pc = "cacheAdj" /\ CacheAdjust(p, TRUE)
                /\ memcacheKey(procs[p].name) \in DOMAIN cache)
                => /\ cache' = Put(cache, memcacheKey(procs[p].name),
                                   cache[memcacheKey(procs[p].name)] + 1)
                   /\ last'.err = "nil"
          /\ (procs[p].pc = "shardCommit" /\ ShardCommit(p))
                => /\ SumKeys(shards', ShardKeysOf(shards', procs[p].name))
                          = StoreTotal(procs[p].name) + procs[p].by
                   /\ procs'[p].pc = "cacheAdj"
          /\ procs[p].pc # "cacheAdj" => cache' = cache
          /\ procs[p].pc # "shardCommit" => shards' = shards]_vars

CacheBumpIsOneWitness ==
    /\ last.op = "Increment" /\ last.err = "nil" /\ last.by = 3
    /\ ~last.cacheFault
    /\ memcacheKey(last.name) \in DOMAIN cache
    /\ cache[memcacheKey(last.name)] = 2
    /\ StoreTotal(last.name) = 4

\* C29: an Increment of a name changes the config kind only in the commit
\* of its config transaction, and that commit puts only where no entity of
\* the name is stored; so a config entity that exists keeps its Shards
\* through every step of an Increment, a racing IncreaseCounterShards
\* included, and Shards above defaultShards never fall back to it
IncrementKeepsConfig ==
    /\ [][config' # config =>
          \A p \in Procs :
             ~ /\ procs[p].op = "Increment"
               /\ procs[p].name \in DOMAIN config
               /\ \/ ConfigRetry(p) \/ ConfigCommit(p)
                  \/ \E i \in Draws(procs[p].cfg) : ShardTxn(p, i)
                  \/ ShardCommit(p) \/ StoreFault(p)
                  \/ \E ok \in BOOLEAN : CacheAdjust(p, ok)]_vars
    /\ [][ops' # ops =>
          \A p \in Procs, name \in DOMAIN config, by \in ByVals :
             Increment(p, name, by)
                 => /\ config' = config
                    /\ procs'[p].cfg = config[name]
                    /\ procs'[p].pc = "shardTx"]_vars
    /\ [](\A name \in DOMAIN config :
             name \in resharded /\ config[name] > defaultShards
                 => \A p \in Procs :
                        (procs[p].pc = "cfgCommit" /\ procs[p].name = name)
                            => procs[p].conflict)

\* an Increment lost its config transaction to an IncreaseCounterShards
\* that put MaxN shards, ran it again and went on with MaxN
IncrementKeepsConfigWitness ==
    \E p \in Procs :
        /\ PastBootstrap(procs[p]) /\ procs[p].cfgRetried
        /\ procs[p].name \in resharded
        /\ procs[p].cfg = MaxN
        /\ config[procs[p].name] = MaxN

\* how far an Increment has come: the runs and commits of the config
\* transaction, then those of the shard transaction, then the cache
\* adjustment, then the return
Progress(pr) ==
    LET slot == 2 * (pr.attempt - 1)
    IN  CASE pr.pc = "cfgTx" -> slot
          [] pr.pc = "cfgCommit" -> slot + 1
          [] pr.pc = "shardTx" -> 2 * MaxAttempts + slot
          [] pr.pc = "shardCommit" -> 2 * MaxAttempts + slot + 1
          [] pr.pc = "cacheAdj" -> 4 * MaxAttempts
          [] OTHER -> 4 * MaxAttempts + 1

\* C30: every Increment that has started returns, with other Increments
\* committing on its config entity and on the shard entities it draws; a
\* transaction is run at most MaxAttempts times; and every step an
\* Increment takes (each changes its position) takes it forward: a re-run
\* only after a conflict, no step back to a transaction that has ended
IncrementReturns ==
    /\ \A p \in Contenders :
           (procs[p].op = "Increment") ~> (procs[p].op = "none")
    /\ [](\A p \in Procs : procs[p].attempt <= MaxAttempts)
    /\ [][\A p \in Procs :
             (procs[p].op = "Increment" /\ procs'[p].pc # procs[p].pc)
                 => /\ Progress(procs'[p]) > Progress(procs[p])
                    /\ procs'[p].attempt > procs[p].attempt
                          => procs[p].conflict]_vars

\* an Increment whose shard transaction lost MaxAttempts commits returned
\* ErrConcurrentTransaction
IncrementReturnsWitness ==
    /\ last.op = "Increment" /\ last.err = "ErrConcurrentTransaction"
    /\ last.shardRetried
    /\ sumBy[last.name] = MaxAttempts

\* the POST to task.URL failed, or the URL answered with another status
\* than 200
PostFailed(r) ==
    r.posted = "failed" \/ (r.posted = "answered" /\ r.code # 200)

\* C22: a callback whose POST to the task's URL failed, or was answered
\* with a status other than 200 (201 and 500 here), answers 400, which the
\* push queue takes as a failure of the task; a callback answers 200 only
\* where the URL answered 200, and no 200 is written before it returns
CallbackPassesFailureOn ==
    req.handler = "callback"
        => /\ (~Serving /\ PostFailed(req)) => req.status = 400
           /\ req.status = 200
                 => ~Serving /\ req.posted = "answered" /\ req.code = 200
           /\ req.status \in {0, 200, 400, 500}

CallbackPassesFailureOnWitness ==
    /\ req.handler = "callback" /\ ~Serving
    /\ req.posted = "answered" /\ req.code = 201 /\ req.status = 400
    /\ ErrCt \in DOMAIN sumBy /\ sumBy[ErrCt] = 1
    /\ Len(tasks) = 1

\* C23: an enq with valid credentials and a body that unmarshals, whose
\* queueName is none of qNames, answers 406 in its first step and is over:
\* no task is added, no QStat, config, shard or cache item is written and no
\* Increment is left to make; and no step of a request answered 406 adds a
\* task or writes a counter
BadQueueNameRejected ==
    /\ [][reqs' # reqs =>
          \A q \in QueueNameVals \ qNames, qsOk, addOk \in BOOLEAN :
             enq(TRUE, TRUE, [QueueName |-> q, URL |-> WebURL], qsOk, addOk)
                 => /\ req'.status = 406 /\ req'.pc = "done"
                    /\ req'.todo = <<>>
                    /\ tasks' = tasks /\ qstat' = qstat
                    /\ config' = config /\ shards' = shards
                    /\ cache' = cache /\ procs' = procs]_vars
    /\ [](req.status = 406
             => /\ req.handler = "enq" /\ ~Serving
                /\ req.task.QueueName \notin qNames)
    /\ [][(tasks' # tasks \/ config' # config \/ shards' # shards
             \/ cache' # cache \/ procs' # procs)
              => req'.status # 406]_vars

BadQueueNameRejectedWitness ==
    /\ req.handler = "enq" /\ ~Serving /\ req.authed
    /\ req.task.QueueName = "InvalidName!" /\ req.status = 406
    /\ Len(tasks) = 1 /\ tasks[1].QueueName = WebQueue
    /\ sumBy[EnqCt] = 1 /\ StoreTotal(EnqCt) = 1
    /\ ~Running(procs[1])

\* what Count(name) returns in this state, with cache and datastore
\* answering
CountNow(name) ==
    IF memcacheKey(name) \in DOMAIN cache THEN cache[memcacheKey(name)]
    ELSE StoreTotal(name)

\* C24: an authenticated GET /counts during which the datastore answered
\* answers 200 with one entry per name of a config entity, in key order,
\* each with the Total that Count of the name returns; after an enq that
\* added its task and whose Increment of EnqCt returned nil the list is not
\* empty and has the entry of EnqCt
CountsListEveryCounter ==
    (req.handler = "getAllCounts" /\ ~Serving /\ req.authed
       /\ ~req.storeFault)
        => /\ req.status = 200
           /\ Len(req.totals) = Cardinality(DOMAIN config)
           /\ [i \in 1..Len(req.totals) |-> req.totals[i].Name]
                  = ConfigNames(config)
           /\ \A i \in 1..Len(req.totals) :
                  req.totals[i].Total = CountNow(req.totals[i].Name)
           /\ (tasks # <<>> /\ EnqCt \in DOMAIN sumBy)
                 => /\ req.totals # <<>>
                    /\ \E i \in 1..Len(req.totals) :
                           /\ req.totals[i].Name = EnqCt
                           /\ req.totals[i].Total = CountNow(EnqCt)

CountsListEveryCounterWitness ==
    /\ req.handler = "getAllCounts" /\ ~Serving /\ req.status = 200
    /\ Len(tasks) = 1 /\ Len(req.totals) = 6
    /\ \E i \in 1..Len(req.totals) :
           req.totals[i].Name = EnqCt /\ req.totals[i].Total = 1
    /\ \A i \in 1..Len(req.totals) : req.totals[i].Total = 1

\* the Enqueue counters of a task: EnqCt, EnqCt+QueueName and EnqCt+URL,
\* each all-time and for today
EnqueueNames(task) ==
    {EnqCt, EnqCt \o Today,
     EnqCt \o task.QueueName, EnqCt \o task.QueueName \o Today,
     EnqCt \o task.URL, EnqCt \o task.URL \o Today}

\* the counters a request has yet to increment
ToIncrement(r) == {r.todo[i].name : i \in DOMAIN r.todo}

\* C31: an enq that added its task increments the six Enqueue counters of
\* the task by 1 and answers 200; an enq that added no task increments none
\* of them, and where it increments any counter taskqueue.Add has failed,
\* the answer is 500 and the counters are EnqueueError and EnqueueError of
\* today; between requests EnqCt counts the tasks added
EnqueueCountsFollowAdd ==
    /\ [][(reqs' # reqs /\ req'.handler = "enq") =>
             IF tasks' # tasks
             THEN /\ ToIncrement(req') = EnqueueNames(req'.task)
                  /\ \A i \in DOMAIN req'.todo : req'.todo[i].by = 1
                  /\ req'.status = 0
             ELSE /\ ToIncrement(req') \cap EnqueueNames(req'.task) = {}
                  /\ ToIncrement(req') # {}
                        => /\ req'.status = 500
                           /\ ToIncrement(req')
                                  = {EnqueueError, EnqueueError \o Today}]_vars
    /\ [](~Serving => StoreTotal(EnqCt) = Len(tasks))

\* C32: after a toggleQueueLogs on a name has put LogsEnabled and answered
\* Ok, the stored QStat of the name has that LogsEnabled until the next
\* toggleQueueLogs puts, whatever getStats calls run meanwhile
ToggleSurvivesGetStats ==
    \A name \in DOMAIN toggled :
        /\ name \in DOMAIN qstat
        /\ qstat[name].LogsEnabled = toggled[name]

\* arguments n of IncreaseCounterShards that are not positive
NonPositive == {-3, -1, 0}

\* C33: every config entity has Shards >= defaultShards, so has the Shards
\* an Increment goes on with after its config transaction, and the indices
\* it draws from are not empty; the closure of IncreaseCounterShards leaves
\* Shards >= defaultShards for every n <= 0, and puts nothing for such n
\* where the entity exists
ShardsAtLeastDefault ==
    /\ \A name \in DOMAIN config : config[name] >= defaultShards
    /\ \A p \in Procs :
           PastBootstrap(procs[p])
               => /\ procs[p].cfg >= defaultShards
                  /\ Draws(procs[p].cfg) # {}
    /\ \A p \in Procs :
           procs[p].pc = "incCommit" => procs[p].cfg >= defaultShards
    /\ \A n \in NonPositive, exists \in BOOLEAN,
          stored \in defaultShards..MaxN :
           /\ IncreaseBody(exists, stored, n).Shards >= defaultShards
           /\ exists => ~IncreaseBody(exists, stored, n).mod

\* IncreaseCounterShards(name, 0) on a name without a config entity has put
\* one with defaultShards, and an Increment of the name draws from them
ShardsAtLeastDefaultWitness ==
    /\ last.op = "IncreaseCounterShards" /\ last.n = 0
    /\ last.err = "nil" /\ last.mod
    /\ config[last.name] = defaultShards
    /\ \E p \in Procs :
           /\ procs[p].pc = "shardTx" /\ procs[p].name = last.name
           /\ procs[p].cfg = defaultShards

\* C34: with increment amounts of at least 1, the cache item of a name
\* never holds more than the sum of the Count fields of the name's shard
\* entities
CacheAtMostStore ==
    \A name \in Names :
        memcacheKey(name) \in DOMAIN cache
            => cache[memcacheKey(name)] <= StoreTotal(name)

IncrementStep(p, name) ==
    \/ \E by \in ByVals : Increment(p, name, by)
    \/ /\ procs[p].op = "Increment" /\ procs[p].name = name
       /\ \/ ConfigRetry(p) \/ ConfigCommit(p)
          \/ \E i \in Draws(procs[p].cfg) : ShardTxn(p, i)
          \/ ShardCommit(p) \/ StoreFault(p)
          \/ \E ok \in BOOLEAN : CacheAdjust(p, ok)

\* a step of the call Count(name) of caller p
CountStep(p, name) ==
    \/ \E ok \in BOOLEAN : Count(p, name, ok)
    \/ /\ procs[p].op = "Count" /\ procs[p].name = name
       /\ \/ CountNext(p) \/ StoreFault(p)
          \/ \E ok \in BOOLEAN : CountSet(p, ok)

\* the config entity, the shard entities and the cache item of name b are
\* after the step what they were before it, and so are the calls on b that
\* are running and the value a Count of b returns
RecordsKept(b) ==
    /\ (b \in DOMAIN config) = (b \in DOMAIN config')
    /\ b \in DOMAIN config => config'[b] = config[b]
    /\ ShardKeysOf(shards', b) = ShardKeysOf(shards, b)
    /\ \A k \in ShardKeysOf(shards, b) : shards'[k] = shards[k]
    /\ (memcacheKey(b) \in DOMAIN cache) = (memcacheKey(b) \in DOMAIN cache')
    /\ memcacheKey(b) \in DOMAIN cache
          => cache'[memcacheKey(b)] = cache[memcacheKey(b)]
    /\ CountNow(b)' = CountNow(b)
    /\ \A q \in Procs : procs[q].name = b => procs'[q] = procs[q]

\* C36: every step of an Increment, a Count or an IncreaseCounterShards on
\* a name keeps the records of every other name and what its Count returns
IsolatedByName ==
    [][procs' # procs =>
       \A p \in Procs, a \in Names :
          (IncrementStep(p, a) \/ CountStep(p, a)
             \/ IncreaseStep(p, a) \/ (procs[p].name = a /\ StoreFault(p)))
              => \A b \in Names \ {a} : RecordsKept(b)]_vars

\* an Increment of one name has returned nil while another name has its
\* config entity and a shard entity, which hold what they held
IsolatedByNameWitness ==
    /\ last.op = "Increment" /\ last.err = "nil"
    /\ StoreTotal(last.name) = 1
    /\ \E b \in DOMAIN config \ {last.name} :
           /\ config[b] = defaultShards
           /\ StoreTotal(b) = 3

\* C37: a step of a Count of a name keeps every config entity and every
\* shard entity and every cache item but the one of its name, so the names
\* GetAllCounterNames lists are what they were; and GetAllCounterNames
\* lists the names of the config entities and no other
CountIsNotDurable ==
    /\ [][procs' # procs =>
          \A p \in Procs, a \in Names :
             CountStep(p, a)
                 => /\ config' = config /\ shards' = shards
                    /\ ConfigNames(config') = ConfigNames(config)
                    /\ \A b \in Names \ {a} :
                          /\ (memcacheKey(b) \in DOMAIN cache)
                                = (memcacheKey(b) \in DOMAIN cache')
                          /\ memcacheKey(b) \in DOMAIN cache
                                => cache'[memcacheKey(b)]
                                       = cache[memcacheKey(b)]]_vars
    /\ [][ops' # ops =>
          \A p \in Procs :
             GetAllCounterNames(p, TRUE)
                 => /\ last'.names = ConfigNames(config)
                    /\ \A i \in 1..Len(last'.names) :
                          last'.names[i] \in DOMAIN config]_vars

\* a Count of a name that has no config entity queried the shards and set
\* the cache item of the name; GetAllCounterNames then does not list it
CountIsNotDurableWitness ==
    /\ last.op = "GetAllCounterNames" /\ last.err = "nil"
    /\ \E name \in Names :
           /\ memcacheKey(name) \in DOMAIN cache
           /\ name \notin DOMAIN config
           /\ \A i \in 1..Len(last.names) : last.names[i] # name

====
